---- MODULE Spec2Model ----
(***************************************************************************)
(* A model of the book recommender: the catalog loader (tools.py), the     *)
(* slug function of the media add-ons (LLM_Aditional.py) and the           *)
(* orchestration of one run of main() (main.py).                           *)
(*                                                                         *)
(* Python strings are sequences of one-character strings.  A JSON value    *)
(* that sits in a field of an object is a "scalar" [k, s]; a whole decoded *)
(* JSON document is a "value" [k, s, f], f being the fields of an object.  *)
(***************************************************************************)
EXTENDS Integers, Sequences, FiniteSets, TLC

VARIABLES
    \* ---- main() ----
    pc,          \* position of main() in its body
    path_lines,  \* the lines of the file at JSONL_PATH
    books,       \* books (main.py:84)
    metas_list,  \* metas_list (main.py:115)
    only_title,  \* only_title (main.py:117)
    first,       \* the first model response (main.py:128)
    final_data,  \* final_data (main.py:137, 142, 198)
    call,        \* call (main.py:147)
    call_id,     \* call_id (main.py:168)
    title_arg,   \* title_arg (main.py:177)
    tool_result, \* tool_result (main.py:181)
    tool_ran,    \* whether tool_func was invoked (main.py:183)
    second_in,   \* the input item of the second model call (main.py:189)
    final,       \* output_text of the second model response (main.py:186)
    ncalls,      \* number of client.responses.create calls made
    out,         \* what the run printed, in order
    asked,       \* the input() prompts answered so far, in order
    media,       \* the arguments the media add-ons were called with
    exc,         \* the exception that left main(), if any
    \* ---- parse_json(path) ----
    ppc,         \* position of parse_json in its body
    openable,    \* whether open(path) succeeds
    file,        \* the lines of the file
    idx,         \* number of lines the loop has consumed
    pbooks,      \* books (tools.py:15)
    pexc,        \* the exception that left parse_json, if any
    \* ---- _safe_slug ----
    spc,         \* how many times _safe_slug was applied
    sin,         \* the input string
    slug1,       \* _safe_slug(sin)
    slug2        \* _safe_slug(slug1)

mainVars == <<pc, path_lines, books, metas_list, only_title, first, final_data,
              call, call_id, title_arg, tool_result, tool_ran, second_in, final,
              ncalls, out, asked, media, exc>>
parseVars == <<ppc, openable, file, idx, pbooks, pexc>>
slugVars == <<spc, sin, slug1, slug2>>
vars == <<mainVars, parseVars, slugVars>>

\* ------------------------------------------------------------------ bounds
MaxLines == 3
MaxSuffix == 3
MaxTitleLen == 2
MaxItems == 2

\* ------------------------------------------------------- program constants
SlugCap == 60
TOP_K == 1

\* ---------------------------------------------------------- Python values
RECURSIVE Rep(_, _)
Rep(c, n) == IF n = 0 THEN <<>> ELSE <<c>> \o Rep(c, n - 1)

SeqsUpTo(S, n) == UNION {[1..m -> S] : m \in 0..n}

FieldNames == {"status", "title", "verbal", "blurb", "summary_short", "themes"}

Absent == [k |-> "absent", s |-> <<>>]
JNull == [k |-> "null", s |-> <<>>]
JStr(s) == [k |-> "str", s |-> s]
JNum(d) == [k |-> "num", s |-> d]
JList(e) == [k |-> "list", s |-> e]

NoFields == [n \in FieldNames |-> Absent]
Val(x) == [k |-> x.k, s |-> x.s, f |-> NoFields]
Obj(g) == [k |-> "obj", s |-> <<>>,
           f |-> [n \in FieldNames |-> IF n \in DOMAIN g THEN g[n] ELSE Absent]]
None == Val(JNull)
EmptyObj == [k |-> "obj", s |-> <<>>, f |-> NoFields]

\* Python truthiness of a scalar: None, "", 0 and [] are falsy.
Truthy(x) ==
    CASE x.k \in {"absent", "null"} -> FALSE
      [] x.k = "num" -> x.s # <<"0">>
      [] OTHER -> x.s # <<>>

\* Python truthiness of a decoded document: a dict is truthy iff non-empty.
TruthyVal(v) ==
    IF v.k = "obj" THEN \E n \in FieldNames : v.f[n].k # "absent"
    ELSE Truthy([k |-> v.k, s |-> v.s])

IsDict(v) == v.k = "obj"
Hashable(x) == x.k # "list"

\* dict.get(key) and dict.get(key, default)
Get(d, key) == IF d.f[key].k = "absent" THEN JNull ELSE d.f[key]
GetD(d, key, default) == IF d.f[key].k = "absent" THEN default ELSE d.f[key]

\* a or b
Or(a, b) == IF Truthy(a) THEN a ELSE b

NoExc == "none"

\* A text: empty, not JSON, or the JSON encoding of val.
EmptyText == [k |-> "empty", val |-> None]
Garbage == [k |-> "garbage", val |-> None]
Json(v) == [k |-> "json", val |-> v]

\* json.loads(text): the decoded value, or JSONDecodeError.
JsonLoads(t) ==
    IF t.k = "json" THEN [ok |-> TRUE, val |-> t.val]
    ELSE [ok |-> FALSE, val |-> None]

\* ------------------------------------------------------------- _safe_slug
Letters == {"a","b","c","d","e","f","g","h","i","j","k","l","m","n","o","p","q",
            "r","s","t","u","v","w","x","y","z","A","B","C","D","E","F","G","H",
            "I","J","K","L","M","N","O","P","Q","R","S","T","U","V","W","X","Y","Z"}
Digits == {"0","1","2","3","4","5","6","7","8","9"}
SlugAllowed == Letters \cup Digits \cup {"_", "-"}

\* re.sub(r"[^a-zA-Z0-9_-]+", "_", s): every maximal run of other characters
\* becomes one underscore.
RECURSIVE ReSub(_)
ReSub(s) ==
    IF s = <<>> THEN <<>>
    ELSE IF s[1] \in SlugAllowed THEN <<s[1]>> \o ReSub(Tail(s))
    ELSE IF Len(s) > 1 /\ s[2] \notin SlugAllowed THEN ReSub(Tail(s))
    ELSE <<"_">> \o ReSub(Tail(s))

RECURSIVE LStrip(_, _)
LStrip(s, cs) ==
    IF s # <<>> /\ s[1] \in cs THEN LStrip(Tail(s), cs) ELSE s

RECURSIVE RStrip(_, _)
RStrip(s, cs) ==
    IF s # <<>> /\ s[Len(s)] \in cs THEN RStrip(SubSeq(s, 1, Len(s) - 1), cs) ELSE s

\* s.strip(cs)
StripChars(s, cs) == RStrip(LStrip(s, cs), cs)

\* s[:n]
Prefix(s, n) == IF Len(s) <= n THEN s ELSE SubSeq(s, 1, n)

OutputSlug == <<"o", "u", "t", "p", "u", "t">>

SafeSlug(s) ==
    LET t == Prefix(StripChars(ReSub(s), {"_"}), SlugCap)
    IN  IF t = <<>> THEN OutputSlug ELSE t

SlugChars == {"a", "_", "!"}
SlugPrefixLens == {0} \cup ((SlugCap - 3)..(SlugCap + 1))
SlugInputs == {Rep("a", n) \o suf : n \in SlugPrefixLens,
                                    suf \in SeqsUpTo(SlugChars, MaxSuffix)}

\* --------------------------------------------------------------- _safe_slug, applied twice
SlugInit ==
    /\ spc = 0
    /\ sin \in SlugInputs
    /\ slug1 = <<>>
    /\ slug2 = <<>>

SlugIdle ==
    /\ spc = 2
    /\ sin = <<>>
    /\ slug1 = <<>>
    /\ slug2 = <<>>

SlugOnce ==
    /\ spc = 0
    /\ slug1' = SafeSlug(sin)
    /\ spc' = 1
    /\ UNCHANGED <<sin, slug2>>
    /\ UNCHANGED <<mainVars, parseVars>>

SlugTwice ==
    /\ spc = 1
    /\ slug2' = SafeSlug(slug1)
    /\ spc' = 2
    /\ UNCHANGED <<sin, slug1>>
    /\ UNCHANGED <<mainVars, parseVars>>

\* ------------------------------------------------------------- parse_json
Blank == [k |-> "blank", val |-> None]

EmptyDict == [x \in {} |-> None]
DictSet(d, key, v) == [x \in DOMAIN d \cup {key} |-> IF x = key THEN v ELSE d[x]]

\* str(x) of a string or a number
PyStr(x) == x.s

\* themes = row.get("themes") or []; a non-list becomes [str(themes)]
CoerceThemes(row) ==
    LET themes == Or(Get(row, "themes"), JList(<<>>))
    IN  IF themes.k # "list" THEN JList(PyStr(themes)) ELSE themes

\* Faulty variant: if title is None: continue
SkipTitleOnlyNone(title) == title.k \in {"absent", "null"}

\* if not title: continue
SkipTitle(title) == ~Truthy(title)

\* One iteration of the loop over the file's lines.
ParseLine(bk, line) ==
    IF line.k = "blank" THEN [books |-> bk, exc |-> NoExc]
    ELSE LET r == JsonLoads(line) IN
    IF ~r.ok THEN [books |-> bk, exc |-> NoExc]
    ELSE IF ~IsDict(r.val) THEN [books |-> bk, exc |-> "AttributeError"]
    ELSE LET title == Get(r.val, "title") IN
    IF SkipTitle(title) THEN [books |-> bk, exc |-> NoExc]
    ELSE IF ~Hashable(title) THEN [books |-> bk, exc |-> "TypeError"]
    ELSE [books |-> DictSet(bk, title, [summary |-> Get(r.val, "summary_short"),
                                        themes |-> CoerceThemes(r.val)]),
          exc |-> NoExc]

RECURSIVE ParseFrom(_, _, _)
ParseFrom(lines, i, bk) ==
    IF i > Len(lines) THEN [books |-> bk, exc |-> NoExc]
    ELSE LET r == ParseLine(bk, lines[i])
         IN  IF r.exc # NoExc THEN r ELSE ParseFrom(lines, i + 1, r.books)

\* parse_json of an openable file
ParseJson(lines) == ParseFrom(lines, 1, EmptyDict)

TitleA == JStr(<<"a">>)
TitleB == JStr(<<"b">>)
SummaryS == JStr(<<"s">>)
SummaryT == JStr(<<"t">>)

CatalogLines ==
    { Blank, Garbage,
      Json(Val(JNum(<<"5">>))), Json(None), Json(Val(JList(<<"a">>))),
      Json(Val(JStr(<<"a">>))),
      Json(Obj([summary_short |-> SummaryS])),
      Json(Obj([title |-> JStr(<<>>), summary_short |-> SummaryS])),
      Json(Obj([title |-> JNum(<<"0">>)])),
      Json(Obj([title |-> JList(<<"a">>), summary_short |-> SummaryS])),
      Json(Obj([title |-> TitleA, summary_short |-> SummaryS, themes |-> JList(<<"x", "y">>)])),
      Json(Obj([title |-> TitleA, summary_short |-> SummaryT, themes |-> JStr(<<"x">>)])),
      Json(Obj([title |-> TitleA])),
      Json(Obj([title |-> TitleB, summary_short |-> JStr(<<>>), themes |-> JNum(<<"5">>)])) }

ParseInit ==
    /\ ppc = "open"
    /\ openable \in BOOLEAN
    /\ file \in SeqsUpTo(CatalogLines, MaxLines)
    /\ idx = 0
    /\ pbooks = EmptyDict
    /\ pexc = NoExc

ParseIdle ==
    /\ ppc = "idle"
    /\ openable = TRUE
    /\ file = <<>>
    /\ idx = 0
    /\ pbooks = EmptyDict
    /\ pexc = NoExc

\* with open(path, "r", encoding="utf-8") as f
Open ==
    /\ ppc = "open"
    /\ IF openable
       THEN ppc' = "loop" /\ pexc' = pexc
       ELSE ppc' = "raised" /\ pexc' = "OSError"
    /\ UNCHANGED <<openable, file, idx, pbooks>>
    /\ UNCHANGED <<mainVars, slugVars>>

\* for line in f: ...
ReadLine ==
    /\ ppc = "loop"
    /\ idx < Len(file)
    /\ LET r == ParseLine(pbooks, file[idx + 1])
       IN  /\ pbooks' = r.books
           /\ pexc' = r.exc
           /\ ppc' = IF r.exc = NoExc THEN "loop" ELSE "raised"
    /\ idx' = idx + 1
    /\ UNCHANGED <<openable, file>>
    /\ UNCHANGED <<mainVars, slugVars>>

\* return books
Return ==
    /\ ppc = "loop"
    /\ idx = Len(file)
    /\ ppc' = "returned"
    /\ UNCHANGED <<openable, file, idx, pbooks, pexc>>
    /\ UNCHANGED <<mainVars, slugVars>>

\* ------------------------------------------------------------------ main()
StatusOk == JStr(<<"o", "k">>)
StatusNoMatch == JStr(<<"n", "o", "_", "m", "a", "t", "c", "h">>)
StatusRefuse == JStr(<<"r", "e", "f", "u", "s", "e">>)
StatusMaybe == JStr(<<"m", "a", "y", "b", "e">>)

\* SUMMARY_TOOL["name"]
ToolName == <<"g", "e", "t", "_", "s", "u", "m", "m", "a", "r", "y", "_",
              "b", "y", "_", "t", "i", "t", "l", "e">>
OtherName == <<"o", "t", "h", "e", "r">>

Whitespace == {" ", "\t", "\n", "\r"}

\* s.strip()
Strip(s) == StripChars(s, Whitespace)

\* ---- what the run prints: a tag, and the text or value printed
Ev(tag) == [tag |-> tag, txt |-> EmptyText, s |-> JNull]
EvRaw(t) == [tag |-> "raw", txt |-> t, s |-> JNull]
EvVal(tag, x) == [tag |-> tag, txt |-> EmptyText, s |-> x]

\* ---- the vector store's answer: the title of each hit's metadata
MetaTitles == {Absent, JStr(<<>>), TitleA, TitleB}

\* valid_titles = {m.get("title") for m in metas_list if m.get("title")}
ValidTitles(metas) == {metas[i] : i \in {j \in DOMAIN metas : Truthy(metas[j])}}

\* only_title = next(iter(valid_titles)) if len(valid_titles) == 1 else None
OnlyTitle(metas) ==
    LET vt == ValidTitles(metas)
    IN  IF Cardinality(vt) = 1 THEN CHOOSE t \in vt : TRUE ELSE JNull

\* ---- a model response: its output_text and its output items
ItemDigit == <<"1", "2", "3", "4", "5">>
NoPayload == [has_call_id |-> FALSE, name |-> <<>>, arguments |-> EmptyText]

\* An output item.  A message carries the types of its content parts; a
\* function_call (item or part) carries call_id, id, name and arguments.
Item(type, content, i, p) ==
    LET isCall == type = "function_call" \/ \E j \in DOMAIN content : content[j] = "function_call"
    IN  [type |-> type, content |-> content,
         call_id |-> IF isCall /\ p.has_call_id THEN JStr(<<"c", ItemDigit[i]>>) ELSE Absent,
         id |-> IF isCall THEN JStr(<<"f", ItemDigit[i]>>) ELSE Absent,
         name |-> IF isCall THEN p.name ELSE <<>>,
         arguments |-> IF isCall THEN p.arguments ELSE EmptyText]

NoCall == [found |-> FALSE, call_id |-> Absent, id |-> Absent, name |-> <<>>,
           arguments |-> EmptyText]
CallOf(item) == [found |-> TRUE, call_id |-> item.call_id, id |-> item.id,
                 name |-> item.name, arguments |-> item.arguments]

\* The loop over dump["output"]: the first function_call item, or the first
\* message holding a function_call part.
RECURSIVE ExtractCall(_)
ExtractCall(output) ==
    IF output = <<>> THEN NoCall
    ELSE LET item == Head(output) IN
         IF item.type = "function_call" THEN CallOf(item)
         ELSE IF item.type = "message"
                 /\ \E j \in DOMAIN item.content : item.content[j] = "function_call"
              THEN CallOf(item)
         ELSE ExtractCall(Tail(output))

\* Faulty variant: if isinstance(parsed, dict) and parsed.get("status") == "ok"
UsableOnlyWhenOk(parsed) == IsDict(parsed) /\ Get(parsed, "status") = StatusOk

\* if isinstance(parsed, dict) and parsed.get("status")
UsableAsFinal(parsed) == IsDict(parsed) /\ Truthy(Get(parsed, "status"))

\* The final_data the first response's text gives (None when it gives none).
FirstFinalData(text) ==
    IF text.k = "empty" THEN None
    ELSE LET r == JsonLoads(text)
         IN  IF r.ok /\ UsableAsFinal(r.val) THEN r.val ELSE None

\* ---- the Summary Tool
\* entry = books.get(title); return (entry[0] or "") if entry else ""
ToolFunc(bk, title) ==
    IF JStr(title) \in DOMAIN bk THEN Or(bk[JStr(title)].summary, JStr(<<>>))
    ELSE JStr(<<>>)

\* args_json = call.get("arguments") or "{}"
OrEmptyObject(t) == IF t.k = "empty" THEN Json(EmptyObj) ELSE t

\* args = json.loads(args_json), {} on JSONDecodeError
LoadArgs(c) ==
    LET r == JsonLoads(OrEmptyObject(c.arguments))
    IN  IF r.ok THEN r.val ELSE EmptyObj

\* Faulty variant: the fallback to only_title is left out
TitleArgNoFallback(t, only) == Strip(t)

\* title_arg = (args.get("title") or "").strip();
\* if not title_arg and only_title: title_arg = only_title
TitleArg(t, only) ==
    LET stripped == Strip(t)
    IN  IF stripped = <<>> /\ Truthy(only) THEN only.s ELSE stripped

\* Lines 168-183: call_id, title_arg and tool_result, or the exception raised.
ResolveCall(c, only, bk) ==
    LET args == LoadArgs(c)
        cid == Or(c.call_id, c.id)
        bad == [exc |-> "AttributeError", call_id |-> cid, title_arg |-> <<>>,
                tool_result |-> JStr(<<>>), ran |-> FALSE]
    IN  IF ~IsDict(args) THEN bad
        ELSE LET t == Or(Get(args, "title"), JStr(<<>>)) IN
        IF t.k # "str" THEN bad
        ELSE LET ta == TitleArg(t.s, only)
                 run == c.name = ToolName
             IN  [exc |-> NoExc, call_id |-> cid, title_arg |-> ta,
                  tool_result |-> IF run THEN Or(ToolFunc(bk, ta), JStr(<<>>)) ELSE JStr(<<>>),
                  ran |-> run]

\* ---- print_result(data, books)
PrintResult(data, bk) ==
    IF ~IsDict(data) THEN [out |-> <<>>, exc |-> "AttributeError"]
    ELSE LET status == Get(data, "status") IN
    IF status = StatusOk THEN
        LET bot == EvVal("bot", Or(Get(data, "verbal"), GetD(data, "blurb", JStr(<<>>))))
            title == Get(data, "title")
        IN  IF ~Truthy(title) THEN [out |-> <<bot>>, exc |-> NoExc]
            ELSE IF ~Hashable(title) THEN [out |-> <<bot>>, exc |-> "TypeError"]
            ELSE IF title \notin DOMAIN bk THEN [out |-> <<bot>>, exc |-> NoExc]
            ELSE LET summary == Or(bk[title].summary, JStr(<<>>))
                 IN  IF Truthy(summary)
                     THEN [out |-> <<bot, EvVal("summary", summary)>>, exc |-> NoExc]
                     ELSE [out |-> <<bot>>, exc |-> NoExc]
    ELSE IF status = StatusNoMatch THEN [out |-> <<Ev("no_match")>>, exc |-> NoExc]
    ELSE IF status = StatusRefuse THEN [out |-> <<Ev("refuse")>>, exc |-> NoExc]
    ELSE [out |-> <<EvVal("bot", GetD(data, "verbal", JStr(<<>>)))>>, exc |-> NoExc]

\* ---- the media step
\* Faulty variant: if final_data and final_data.get("status") == "ok"
MediaGuardStatusOnly(fd) == TruthyVal(fd) /\ Get(fd, "status") = StatusOk

\* if final_data and final_data.get("status") == "ok" and final_data.get("title")
MediaGuard(fd) ==
    /\ TruthyVal(fd)
    /\ Get(fd, "status") = StatusOk
    /\ Truthy(Get(fd, "title"))

RecommendationPrefix == <<"R", "e", "c", "o", "m", "m", "e", "n", "d", "a", "t",
                          "i", "o", "n", ":", " ">>

\* blurb_or_summary = final_data.get("blurb") or (books.get(title, ("", []))[0] or "")
BlurbOrSummary(fd, bk) ==
    LET title == Get(fd, "title")
        stored == IF title \in DOMAIN bk THEN bk[title].summary ELSE JStr(<<>>)
    IN  Or(Get(fd, "blurb"), Or(stored, JStr(<<>>)))

\* Whether line 209 raises: books.get(title, ...) of an unhashable title.
BlurbRaises(fd) == ~Truthy(Get(fd, "blurb")) /\ ~Hashable(Get(fd, "title"))

\* verbal_text = final_data.get("verbal") or final_data.get("blurb") or f"Recommendation: {title}"
VerbalText(fd) ==
    Or(Get(fd, "verbal"),
       Or(Get(fd, "blurb"), JStr(RecommendationPrefix \o PyStr(Get(fd, "title")))))

\* Faulty variant: no try/except around the add-on
AddOnResultUncaught(outcome, okTag, errTag, path) ==
    IF outcome = "ok" THEN [out |-> <<EvVal(okTag, path)>>, exc |-> NoExc]
    ELSE [out |-> <<>>, exc |-> "Exception"]

\* What try/except around an add-on leaves: the line printed and the
\* exception that escapes (none: except Exception catches it).
AddOnResult(outcome, okTag, errTag, path) ==
    IF outcome = "ok" THEN [out |-> <<EvVal(okTag, path)>>, exc |-> NoExc]
    ELSE [out |-> <<Ev(errTag)>>, exc |-> NoExc]

\* generate_cover_image returns only for a string title and a sliceable blurb.
ImageOutcomes(fd, bk) ==
    IF Get(fd, "title").k = "str" /\ BlurbOrSummary(fd, bk).k \in {"str", "list"}
    THEN {"ok", "raise"} ELSE {"raise"}

\* speak_text returns only for a string title.
SpeechOutcomes(fd) == IF Get(fd, "title").k = "str" THEN {"ok", "raise"} ELSE {"raise"}

CoverPath(fd) == JStr(<<"c", "o", "v", "e", "r", "_">> \o SafeSlug(Get(fd, "title").s)
                      \o <<".", "p", "n", "g">>)
SpeechPath(fd) == JStr(<<"t", "t", "s", "_">> \o SafeSlug(Get(fd, "title").s)
                       \o <<".", "m", "p", "3">>)

\* ---- the inputs of a run
RecordA == Json(Obj([title |-> TitleA, summary_short |-> SummaryS, themes |-> JList(<<"x", "y">>)]))
RecordANoSummary == Json(Obj([title |-> TitleA]))

\* The file at JSONL_PATH.
MainFiles == {<<>>, <<RecordA>>, <<RecordANoSummary>>, <<Garbage, RecordA>>,
              <<Json(Val(JNum(<<"5">>)))>>}

StatusVals == {Absent, JStr(<<>>), StatusOk, StatusNoMatch, StatusRefuse, StatusMaybe}
TitleVals == {Absent, JStr(<<>>), TitleA, TitleB, JList(<<"a">>), JNum(<<"5">>)}
VerbalVals == {Absent, JStr(<<"v">>)}
BlurbVals == {Absent, JStr(<<"b">>)}

Objects == {Obj([status |-> st, title |-> ti, verbal |-> ve, blurb |-> bl]) :
              st \in StatusVals, ti \in TitleVals, ve \in VerbalVals, bl \in BlurbVals}
NonObjects == {None, Val(JNum(<<"5">>)), Val(JStr(<<"a">>)), Val(JList(<<>>)), Val(JList(<<"a">>))}

\* Texts a model response can carry.
ModelTexts == {EmptyText, Garbage} \cup {Json(v) : v \in Objects \cup NonObjects}

TitleChars == {" ", "a"}
ArgTexts == {EmptyText, Garbage, Json(None), Json(EmptyObj),
             Json(Obj([title |-> JNull])), Json(Obj([title |-> JNum(<<"5">>)]))}
            \cup {Json(Obj([title |-> JStr(t)])) : t \in SeqsUpTo(TitleChars, MaxTitleLen)}

Payloads == [has_call_id : BOOLEAN, name : {ToolName, OtherName}, arguments : ArgTexts]
DefaultPayload == [has_call_id |-> TRUE, name |-> ToolName,
                   arguments |-> Json(Obj([title |-> TitleA]))]

ItemShapes == {<<"reasoning", <<>>>>, <<"function_call", <<>>>>,
               <<"message", <<"output_text">>>>,
               <<"message", <<"output_text", "function_call">>>>}

OutputsOf(p) ==
    {[i \in DOMAIN sh |-> Item(sh[i][1], sh[i][2], i, p)] : sh \in SeqsUpTo(ItemShapes, MaxItems)}

\* Outputs that hold no tool call.
PlainOutputs == {o \in OutputsOf(NoPayload) : ~ExtractCall(o).found}

\* The first responses a run is tried on: every text with every output that
\* holds no tool call and with one plain tool call; and every shape of output
\* and tool call with two texts that are not taken as the final answer.
FirstResponses ==
    {[text |-> t, output |-> o] :
        t \in ModelTexts,
        o \in PlainOutputs \cup {<<Item("function_call", <<>>, 1, DefaultPayload)>>}}
    \cup
    {[text |-> t, output |-> o] :
        t \in {EmptyText, Json(Obj([status |-> JStr(<<>>), title |-> TitleA]))},
        o \in UNION {OutputsOf(p) : p \in Payloads}}

NoResponse == [text |-> EmptyText, output |-> <<>>]
NoInput == [type |-> "none", call_id |-> JNull, output |-> JNull]

MainInit ==
    /\ pc = "load"
    /\ path_lines \in MainFiles
    /\ books = EmptyDict
    /\ metas_list = <<>>
    /\ only_title = JNull
    /\ first = NoResponse
    /\ final_data = None
    /\ call = NoCall
    /\ call_id = JNull
    /\ title_arg = <<>>
    /\ tool_result = JStr(<<>>)
    /\ tool_ran = FALSE
    /\ second_in = NoInput
    /\ final = EmptyText
    /\ ncalls = 0
    /\ out = <<>>
    /\ asked = <<>>
    /\ media = <<>>
    /\ exc = NoExc

MainIdle ==
    /\ pc = "idle"
    /\ path_lines = <<>>
    /\ books = EmptyDict
    /\ metas_list = <<>>
    /\ only_title = JNull
    /\ first = NoResponse
    /\ final_data = None
    /\ call = NoCall
    /\ call_id = JNull
    /\ title_arg = <<>>
    /\ tool_result = JStr(<<>>)
    /\ tool_ran = FALSE
    /\ second_in = NoInput
    /\ final = EmptyText
    /\ ncalls = 0
    /\ out = <<>>
    /\ asked = <<>>
    /\ media = <<>>
    /\ exc = NoExc

\* 1) books = parse_json(JSONL_PATH); print(f"[load] Books: {len(books)}")
LoadCatalog ==
    /\ pc = "load"
    /\ LET r == ParseJson(path_lines)
       IN  IF r.exc = NoExc
           THEN /\ books' = r.books
                /\ out' = Append(out, Ev("load"))
                /\ pc' = "search"
                /\ exc' = exc
           ELSE /\ exc' = r.exc
                /\ pc' = "raised"
                /\ UNCHANGED <<books, out>>
    /\ UNCHANGED <<path_lines, metas_list, only_title, first, final_data, call, call_id,
                   title_arg, tool_result, tool_ran, second_in, final, ncalls, asked, media>>
    /\ UNCHANGED <<parseVars, slugVars>>

\* 3) the query is read, the store answers with at most TOP_K hits, the
\*    context is printed and only_title is remembered.
Search ==
    /\ pc = "search"
    /\ \E metas \in SeqsUpTo(MetaTitles, TOP_K) :
          /\ metas_list' = metas
          /\ only_title' = OnlyTitle(metas)
    /\ asked' = Append(asked, "query")
    /\ out' = Append(out, Ev("context"))
    /\ pc' = "propose"
    /\ UNCHANGED <<path_lines, books, first, final_data, call, call_id, title_arg,
                   tool_result, tool_ran, second_in, final, ncalls, media, exc>>
    /\ UNCHANGED <<parseVars, slugVars>>

\* 5) first = client.responses.create(...)
Propose ==
    /\ pc = "propose"
    /\ first' \in FirstResponses
    /\ ncalls' = ncalls + 1
    /\ pc' = "parse_first"
    /\ UNCHANGED <<path_lines, books, metas_list, only_title, final_data, call, call_id,
                   title_arg, tool_result, tool_ran, second_in, final, out, asked, media, exc>>
    /\ UNCHANGED <<parseVars, slugVars>>

\* Faulty variant: if final_data is None and call is not None
RawDumpInverted(fd, c) == fd = None /\ c.found

\* if final_data is None and call is None
RawDump(fd, c) == fd = None /\ ~c.found

\* Lines 136-164: final_data from the text, else the tool call from the
\* output, else the raw dump and return.
ParseFirst ==
    /\ pc = "parse_first"
    /\ LET fd == FirstFinalData(first.text)
           c == IF fd = None THEN ExtractCall(first.output) ELSE NoCall
       IN  /\ final_data' = fd
           /\ call' = c
           /\ IF RawDump(fd, c)
              THEN /\ out' = Append(out, IF first.text.k = "empty"
                                         THEN Ev("raw_no_text_no_call")
                                         ELSE EvRaw(first.text))
                   /\ pc' = "done"
              ELSE /\ out' = out
                   /\ pc' = IF fd = None THEN "resolve" ELSE "report"
    /\ UNCHANGED <<path_lines, books, metas_list, only_title, first, call_id, title_arg,
                   tool_result, tool_ran, second_in, final, ncalls, asked, media, exc>>
    /\ UNCHANGED <<parseVars, slugVars>>

\* Lines 168-183: the tool call is resolved and the Summary Tool is run.
\* From here on only first.id is read of the first response, so the model
\* lets go of its text and output.
Resolve ==
    /\ pc = "resolve"
    /\ LET r == ResolveCall(call, only_title, books)
       IN  /\ call_id' = r.call_id
           /\ title_arg' = r.title_arg
           /\ tool_result' = r.tool_result
           /\ tool_ran' = r.ran
           /\ exc' = r.exc
           /\ pc' = IF r.exc = NoExc THEN "finalize" ELSE "raised"
    /\ first' = NoResponse
    /\ UNCHANGED <<path_lines, books, metas_list, only_title, final_data, call,
                   second_in, final, ncalls, out, asked, media>>
    /\ UNCHANGED <<parseVars, slugVars>>

\* Faulty variant: a text that is not JSON is read as "{}" too
FinalTextLenient(t) == IF t.k = "json" THEN t ELSE Json(EmptyObj)

\* final.output_text or "{}"
FinalText(t) == OrEmptyObject(t)

\* Lines 186-201: the tool output is sent back, the answer is decoded; on
\* JSONDecodeError the raw text is printed and main() returns.  Nothing reads
\* the tool call after this step, so the model lets go of it.
Finalize ==
    /\ pc = "finalize"
    /\ second_in' = [type |-> "function_call_output", call_id |-> call_id,
                     output |-> tool_result]
    /\ ncalls' = ncalls + 1
    /\ \E t \in ModelTexts :
          /\ final' = t
          /\ LET r == JsonLoads(FinalText(t))
             IN  IF r.ok
                 THEN /\ final_data' = r.val
                      /\ out' = out
                      /\ pc' = "report"
                 ELSE /\ final_data' = final_data
                      /\ out' = Append(out, EvRaw(t))
                      /\ pc' = "done"
    /\ call' = NoCall
    /\ UNCHANGED <<path_lines, books, metas_list, only_title, first, call_id, title_arg,
                   tool_result, tool_ran, asked, media, exc>>
    /\ UNCHANGED <<parseVars, slugVars>>

\* 7) print_result(final_data, books)
Report ==
    /\ pc = "report"
    /\ LET r == PrintResult(final_data, books)
       IN  /\ out' = out \o r.out
           /\ exc' = r.exc
           /\ pc' = IF r.exc = NoExc THEN "guard" ELSE "raised"
    /\ UNCHANGED <<path_lines, books, metas_list, only_title, first, final_data, call,
                   call_id, title_arg, tool_result, tool_ran, second_in, final, ncalls,
                   asked, media>>
    /\ UNCHANGED <<parseVars, slugVars>>

\* Lines 207-210: the guard of the media step and the texts it prepares.
Guard ==
    /\ pc = "guard"
    /\ IF ~MediaGuard(final_data) THEN pc' = "done" /\ exc' = exc
       ELSE IF BlurbRaises(final_data) THEN pc' = "raised" /\ exc' = "TypeError"
       ELSE pc' = "ask_image" /\ exc' = exc
    /\ UNCHANGED <<path_lines, books, metas_list, only_title, first, final_data, call,
                   call_id, title_arg, tool_result, tool_ran, second_in, final, ncalls,
                   out, asked, media>>
    /\ UNCHANGED <<parseVars, slugVars>>

\* Lines 213-219: the image prompt and, on yes, generate_cover_image.
AskImage ==
    /\ pc = "ask_image"
    /\ asked' = Append(asked, "image")
    /\ \E yes \in BOOLEAN :
          IF yes
          THEN \E outcome \in ImageOutcomes(final_data, books) :
                  LET r == AddOnResult(outcome, "image_saved", "image_error", CoverPath(final_data))
                  IN  /\ media' = Append(media, [fn |-> "generate_cover_image",
                                                 title |-> Get(final_data, "title"),
                                                 text |-> BlurbOrSummary(final_data, books),
                                                 result |-> outcome])
                      /\ out' = out \o r.out
                      /\ exc' = r.exc
                      /\ pc' = IF r.exc = NoExc THEN "ask_tts" ELSE "raised"
          ELSE /\ pc' = "ask_tts"
               /\ UNCHANGED <<media, out, exc>>
    /\ UNCHANGED <<path_lines, books, metas_list, only_title, first, final_data, call,
                   call_id, title_arg, tool_result, tool_ran, second_in, final, ncalls>>
    /\ UNCHANGED <<parseVars, slugVars>>

\* Lines 222-228: the audio prompt and, on yes, speak_text.
AskTts ==
    /\ pc = "ask_tts"
    /\ asked' = Append(asked, "tts")
    /\ \E yes \in BOOLEAN :
          IF yes
          THEN \E outcome \in SpeechOutcomes(final_data) :
                  LET r == AddOnResult(outcome, "audio_saved", "tts_error", SpeechPath(final_data))
                  IN  /\ media' = Append(media, [fn |-> "speak_text",
                                                 title |-> Get(final_data, "title"),
                                                 text |-> VerbalText(final_data),
                                                 result |-> outcome])
                      /\ out' = out \o r.out
                      /\ exc' = r.exc
                      /\ pc' = IF r.exc = NoExc THEN "done" ELSE "raised"
          ELSE /\ pc' = "done"
               /\ UNCHANGED <<media, out, exc>>
    /\ UNCHANGED <<path_lines, books, metas_list, only_title, first, final_data, call,
                   call_id, title_arg, tool_result, tool_ran, second_in, final, ncalls>>
    /\ UNCHANGED <<parseVars, slugVars>>

Next ==
    \/ LoadCatalog
    \/ Search
    \/ Propose
    \/ ParseFirst
    \/ Resolve
    \/ Finalize
    \/ Report
    \/ Guard
    \/ AskImage
    \/ AskTts

Init == MainInit /\ ParseIdle /\ SlugIdle

Spec == Init /\ [][Next]_vars

\* ---- parse_json on its own
InitParse == MainIdle /\ ParseInit /\ SlugIdle

NextParse ==
    \/ Open
    \/ ReadLine
    \/ Return

SpecParse == InitParse /\ [][NextParse]_vars

\* ---- _safe_slug on its own
InitSlug == MainIdle /\ ParseIdle /\ SlugInit

NextSlug ==
    \/ SlugOnce
    \/ SlugTwice

SpecSlug == InitSlug /\ [][NextSlug]_vars

\* ===================================================================== claims
Tags(o) == {o[i].tag : i \in DOMAIN o}
Asked(q) == \E i \in DOMAIN asked : asked[i] = q
PrintResultTags == {"bot", "summary", "no_match", "refuse"}

\* ---- C1
\* C1: the image and audio prompts, and the two add-ons, are reached only
\* when final_data is an object whose status is "ok" and whose title is
\* non-empty; in every other outcome neither prompt is asked.
C1_MediaOnlyForOkWithTitle ==
    (pc \in {"ask_image", "ask_tts"} \/ Asked("image") \/ Asked("tts") \/ media # <<>>)
        => /\ final_data.k = "obj"
           /\ final_data.f.status = StatusOk
           /\ final_data.f.title.k \notin {"absent", "null"}
           /\ final_data.f.title.s # <<>>

C1_Witness ==
    /\ pc = "done"
    /\ asked = <<"query", "image", "tts">>
    /\ Len(media) = 2
    /\ final_data.f.title = TitleA

\* ---- C2
RawDumpOfFinal ==
    /\ pc = "done"
    /\ out[Len(out)] = EvRaw(final)
    /\ Tags(out) \cap PrintResultTags = {}
    /\ ~Asked("image") /\ ~Asked("tts")
    /\ ncalls = 2
    /\ exc = NoExc

\* C2 as stated: whenever the text of the second response is not JSON, the
\* run prints the raw text and ends normally without print_result, media
\* prompts, further model calls or an exception.
C2_AsStated == (ncalls = 2 /\ final.k # "json") => RawDumpOfFinal

\* C2, amended: the same for a non-empty text that is not JSON (an empty
\* text is decoded as the empty object and reported by print_result).
C2_RawDumpOnUnparseableFinal == (ncalls = 2 /\ final.k = "garbage") => RawDumpOfFinal

C2_Witness ==
    /\ ncalls = 2
    /\ final = Garbage
    /\ pc = "done"
    /\ tool_ran
    /\ out[Len(out)].tag = "raw"

\* ---- C3
HasCallItem(output) ==
    \E i \in DOMAIN output :
        \/ output[i].type = "function_call"
        \/ \E j \in DOMAIN output[i].content : output[i].content[j] = "function_call"

\* The arguments of the first tool call of the output are not JSON.
UnparseableCall(output) ==
    /\ HasCallItem(output)
    /\ LET i == CHOOSE i \in DOMAIN output :
                    /\ HasCallItem(<<output[i]>>)
                    /\ \A j \in 1..(i - 1) : ~HasCallItem(<<output[j]>>)
       IN  output[i].arguments.k = "garbage"

\* The text is a JSON object that carries a status field.
TextHasStatus(t) == t.k = "json" /\ t.val.k = "obj" /\ t.val.f.status.k # "absent"

\* The run ended on the raw dump of the first response, nothing else done.
RawDumpOfFirst ==
    /\ pc = "done"
    /\ out[Len(out)].tag \in {"raw", "raw_no_text_no_call"}
    /\ out[Len(out)].tag = "raw" => out[Len(out)].txt = first.text
    /\ Tags(out) \cap PrintResultTags = {}
    /\ ~tool_ran
    /\ ncalls = 1
    /\ second_in = NoInput
    /\ ~Asked("image") /\ ~Asked("tts")
    /\ exc = NoExc

FirstParsed == ncalls = 1 /\ pc \notin {"propose", "parse_first"}

\* C3 as stated: a first response whose tool call is absent or unparseable
\* and whose text is no JSON object with a status ends the run on a raw dump.
C3_AsStated ==
    (FirstParsed /\ ~TextHasStatus(first.text)
        /\ (~HasCallItem(first.output) \/ UnparseableCall(first.output))
        /\ pc \in {"resolve", "report", "done"})
      => RawDumpOfFirst

\* C3, amended: the same when the response holds no tool call at all (a call
\* whose arguments do not parse is run with empty arguments).
C3_RawDumpWithoutCall ==
    (FirstParsed /\ ~TextHasStatus(first.text) /\ ~HasCallItem(first.output)
        /\ pc \in {"resolve", "report", "done"})
      => RawDumpOfFirst

C3_Witness ==
    /\ pc = "done"
    /\ ncalls = 1
    /\ first.text = Garbage
    /\ first.output # <<>>
    /\ ~HasCallItem(first.output)
    /\ out[Len(out)] = EvRaw(Garbage)

\* ---- C4
\* The first text was taken as the final Recommendation, the tool step skipped.
Bypassed ==
    /\ final_data = first.text.val
    /\ call = NoCall
    /\ ~tool_ran
    /\ second_in = NoInput
    /\ ncalls = 1
    /\ pc \in {"report", "guard", "ask_image", "ask_tts", "done", "raised"}

\* C4 as stated: a first text that is a JSON object carrying a status field
\* is taken as the final Recommendation; no tool call is extracted, the tool
\* is not run, no second call is made, and the run goes on to the Report step.
C4_AsStated ==
    (FirstParsed /\ TextHasStatus(first.text)) => Bypassed

\* C4, amended: the same for a status field that is non-empty (an empty
\* status is not taken; the tool call is then looked for as usual).
C4_BypassOnStatus ==
    (FirstParsed /\ TextHasStatus(first.text)
        /\ first.text.val.f.status.k # "null" /\ first.text.val.f.status.s # <<>>)
      => Bypassed

C4_Witness ==
    /\ pc = "guard"
    /\ ncalls = 1
    /\ first.text.val.f.status = StatusNoMatch
    /\ HasCallItem(first.output)
    /\ final_data = first.text.val
    /\ ~tool_ran
    /\ Tags(out) = {"load", "context", "no_match"}

\* ---- C5
\* The title argument of the call as the model wrote it ("" when the
\* arguments do not parse or carry no title).
WrittenTitle(c) ==
    IF c.arguments.k = "json" /\ c.arguments.val.k = "obj"
          /\ c.arguments.val.f.title.k = "str"
    THEN c.arguments.val.f.title.s
    ELSE <<>>

\* The identifier of the call: its call_id, or its id when it has none.
CallIdentifier(c) == IF c.call_id.k = "str" THEN c.call_id ELSE c.id

\* The stored summary of a title, "" when the catalog has none.
StoredSummary(t) ==
    IF JStr(t) \in DOMAIN books /\ books[JStr(t)].summary.k = "str"
    THEN books[JStr(t)].summary ELSE JStr(<<>>)

SecondCallKeyed ==
    second_in.type # "none"
        => /\ second_in.type = "function_call_output"
           /\ second_in.call_id = call_id
           /\ second_in.output = tool_result

\* C5 as stated: the Summary Tool is run with the model's title argument when
\* that is non-empty, with the single distinct title of the hits when it is
\* empty or the arguments do not parse; its output goes to the second call
\* under the identifier of the call.
C5_AsStated ==
    /\ (pc = "finalize" /\ tool_ran) =>
          /\ WrittenTitle(call) # <<>> => title_arg = WrittenTitle(call)
          /\ (WrittenTitle(call) = <<>> /\ Cardinality(ValidTitles(metas_list)) = 1)
                => ValidTitles(metas_list) = {JStr(title_arg)}
          /\ tool_result = StoredSummary(title_arg)
          /\ call_id = CallIdentifier(call)
    /\ SecondCallKeyed

\* C5, amended: the title is the model's argument with the white space around
\* it stripped, and the fallback applies when nothing is left of it.
C5_ToolTitle ==
    /\ (pc = "finalize" /\ tool_ran) =>
          /\ Strip(WrittenTitle(call)) # <<>> => title_arg = Strip(WrittenTitle(call))
          /\ (Strip(WrittenTitle(call)) = <<>> /\ Cardinality(ValidTitles(metas_list)) = 1)
                => ValidTitles(metas_list) = {JStr(title_arg)}
          /\ tool_result = StoredSummary(title_arg)
          /\ call_id = CallIdentifier(call)
    /\ SecondCallKeyed

C5_Witness ==
    /\ pc = "finalize"
    /\ tool_ran
    /\ call.arguments = Garbage
    /\ call.call_id.k = "absent"
    /\ metas_list = <<TitleA>>
    /\ title_arg = <<"a">>
    /\ tool_result = SummaryS
    /\ call_id = call.id

C5_WitnessStripped ==
    /\ pc = "finalize"
    /\ tool_ran
    /\ WrittenTitle(call) = <<" ", "a">>
    /\ title_arg = <<"a">>
    /\ tool_result = SummaryS

C5_WitnessSent ==
    /\ pc = "report"
    /\ tool_ran
    /\ title_arg = <<"a">>
    /\ second_in = [type |-> "function_call_output", call_id |-> JStr(<<"f", "1">>),
                    output |-> SummaryS]

\* ---- C6
Count(o, tag) == Cardinality({i \in DOMAIN o : o[i].tag = tag})
Failed(fn) == Cardinality({i \in DOMAIN media : media[i].fn = fn /\ media[i].result = "raise"})

\* C6: an exception of an add-on is reported on one [image error] or
\* [tts error] line and never leaves main(); once the image prompt has been
\* answered the run goes on to the audio prompt, whatever the image step did,
\* and speak_text is called with the title and text of the Recommendation.
C6_MediaFailuresContained ==
    /\ Asked("image") => pc \in {"ask_tts", "done"} /\ exc = NoExc
    /\ (Asked("image") /\ pc = "done") => Asked("tts")
    /\ Count(out, "image_error") = Failed("generate_cover_image")
    /\ Count(out, "tts_error") = Failed("speak_text")
    /\ \A i \in DOMAIN media :
          media[i].fn = "speak_text" =>
             /\ media[i].title = final_data.f.title
             /\ media[i].text \in {final_data.f.verbal, final_data.f.blurb,
                                   JStr(RecommendationPrefix \o final_data.f.title.s)}

C6_Witness ==
    /\ pc = "done"
    /\ Len(media) = 2
    /\ media[1].fn = "generate_cover_image" /\ media[1].result = "raise"
    /\ media[2].fn = "speak_text" /\ media[2].result = "ok"
    /\ out[Len(out) - 1].tag = "image_error"
    /\ out[Len(out)].tag = "audio_saved"

\* ---- C10
\* C10: whatever JSON the second response carries, objects or not, the
\* Report step completes and no exception leaves main().
C10_ReportNeverRaises == (ncalls = 2 /\ final.k = "json") => exc = NoExc

\* ---- C7
NonBlank(n) == {i \in 1..n : file[i].k # "blank"}
IsRecord(line) == line.k = "json" /\ line.val.k = "obj"
Titled(line) ==
    /\ IsRecord(line)
    /\ line.val.f.title.k \notin {"absent", "null"}
    /\ line.val.f.title.s \notin {<<>>, <<"0">>}
LastWith(key) == CHOOSE i \in 1..idx :
    /\ Titled(file[i]) /\ file[i].val.f.title = key
    /\ \A j \in (i + 1)..idx : ~(Titled(file[j]) /\ file[j].val.f.title = key)

\* C7: the keys of the mapping are non-empty titles, each the title of a
\* decodable record of the file; a line that is undecodable or has no title
\* contributes no entry; there are at most as many entries as non-blank
\* lines; an entry holds the summary of the last record with its title.
C7_CatalogEntries ==
    /\ \A key \in DOMAIN pbooks :
          /\ key.k \notin {"absent", "null"} /\ key.s # <<>>
          /\ \E i \in 1..idx : Titled(file[i]) /\ file[i].val.f.title = key
          /\ LET r == file[LastWith(key)].val.f.summary_short
             IN  pbooks[key].summary = IF r.k = "absent" THEN JNull ELSE r
    /\ Cardinality(DOMAIN pbooks) <= Cardinality(NonBlank(idx))

C7_Witness ==
    /\ ppc = "returned"
    /\ Len(file) = 3
    /\ file[1] = Garbage
    /\ file[2].val.f.summary_short = SummaryS
    /\ file[3].val.f.summary_short = SummaryT
    /\ DOMAIN pbooks = {TitleA}
    /\ pbooks[TitleA].summary = SummaryT

\* ---- C8
\* C8: parse_json raises only when the file cannot be opened.
C8_OnlyOpenFails == pexc # NoExc => ~openable

\* ---- C9
\* C9: _safe_slug(_safe_slug(s)) = _safe_slug(s).
C9_SlugIdempotent == spc = 2 => slug2 = slug1

====
